---- MODULE Spec2Model ----
(***************************************************************************)
(* Model of Aqsis' InlineArchiveFilter (libs/riutil/inlinearchive_filter.cpp) *)
(* The filter caches the calls made between ArchiveBegin/ArchiveEnd and     *)
(* between ObjectBegin/ObjectEnd into named CachedRiStream logs, and        *)
(* replays a log into the first filter of the chain when ReadArchive or     *)
(* ObjectInstance names it.  The replay re-enters the filter: it is         *)
(* modelled by an explicit stack of replay frames (the C++ call stack), one *)
(* replayed call per step; the upstream source may only issue its next call *)
(* when that stack is empty, i.e. when the previous call has returned.      *)
(***************************************************************************)
EXTENDS Integers, Sequences, FiniteSets, TLC

VARIABLES
    m_archives,         \* std::vector<CachedRiStream*>: seq of [name, cmds]
    m_objectInstances,  \* std::vector<CachedRiStream*>: seq of [name, cmds]
    m_currCache,        \* CachedRiStream*: NULL or [reg, idx] of a registry entry
    m_nested,           \* int
    m_inObject,         \* bool
    callStack,          \* active CachedRiStream::replay() calls, innermost last
    firstFilter,        \* calls received by the first stage of the chain, in order
    nextFilter,         \* calls received by the next stage, in order
    errorHandler,       \* errors reported through services().errorHandler()
    input,              \* history: calls issued by the upstream source, in order
    trig,               \* history: the world before each call of `input`
    pre,                \* history: the world before the last step
    delivered,          \* history: what the last step delivered to the filter
    m_socket,           \* CqSocket: int, descriptor or INVALID_SOCKET
    m_port,             \* CqSocket: int
    os,                 \* the descriptors the operating system holds open
    aborted,            \* an assert() has failed and ended the process
    last,               \* history: the last CqSocket call, its system calls, result
    wire,               \* connected pair: bytes sent and not yet received
    tx,                 \* connected pair: the sendData call of the sending end
    rx,                 \* connected pair: the recvData call of the receiving end
    sentLog,            \* history: messages whose sendData has returned, in order
    recvLog             \* history: what each returned recvData appended, in order

filterVars == <<m_archives, m_objectInstances, m_currCache, m_nested, m_inObject,
                callStack, firstFilter, nextFilter, errorHandler, input, trig, pre,
                delivered>>

socketVars == <<m_socket, m_port, os, aborted, last>>

wireVars == <<wire, tx, rx, sentLog, recvLog>>

vars == <<filterVars, socketVars, wireVars>>

(***************************************************************************)
(* Bounds of the exploration.                                               *)
(***************************************************************************)
\* calls the source issues freely after one of the recorded scripts
MaxFree == 3
\* replay() calls that may be active at once
MaxDepth == 3

Names == {"X", "Y"}

(***************************************************************************)
(* Cached calls and logs.                                                   *)
(***************************************************************************)
NULL == [reg |-> "none", idx |-> 0]

\* RiCache::<op>(args): the cached form of one interface call
RiCache(op, name, args) == [op |-> op, name |-> name, args |-> args]

\* new CachedRiStream(name)
CachedRiStream(name) == [name |-> name, cmds |-> <<>>]

\* the world the handlers act on: the filter's members and its collaborators
World ==
    [m_archives |-> m_archives, m_objectInstances |-> m_objectInstances,
     m_currCache |-> m_currCache, m_nested |-> m_nested,
     m_inObject |-> m_inObject, callStack |-> callStack,
     firstFilter |-> firstFilter, nextFilter |-> nextFilter,
     errorHandler |-> errorHandler]

\* InlineArchiveFilter(services, out)
Fresh ==
    [m_archives |-> <<>>, m_objectInstances |-> <<>>, m_currCache |-> NULL,
     m_nested |-> 0, m_inObject |-> FALSE, callStack |-> <<>>,
     firstFilter |-> <<>>, nextFilter |-> <<>>, errorHandler |-> <<>>]

Registry(w, reg) == IF reg = "archives" THEN w.m_archives ELSE w.m_objectInstances

\* m_currCache->push_back(cmd)
push_back(w, cmd) ==
    IF w.m_currCache.reg = "archives"
    THEN [w EXCEPT !.m_archives[w.m_currCache.idx].cmds = Append(@, cmd)]
    ELSE [w EXCEPT !.m_objectInstances[w.m_currCache.idx].cmds = Append(@, cmd)]

\* stream->replay(target): enter the replay loop of a log; the cached calls
\* are re-issued on `target`, "firstFilter" or "nextFilter"
replay(w, reg, i, target) ==
    [w EXCEPT !.callStack =
        Append(@, [reg |-> reg, idx |-> i, pc |-> 1, target |-> target])]

\* the search loops: index of the first log called `name`, 0 when there is none
Find(logs, name) ==
    IF \E i \in 1..Len(logs) : logs[i].name = name
    THEN CHOOSE i \in 1..Len(logs) :
            /\ logs[i].name = name
            /\ \A j \in 1..(i - 1) : logs[j].name # name
    ELSE 0

\* nextFilter().<op>(args)
Forward(w, cmd) == [w EXCEPT !.nextFilter = Append(@, cmd)]

\* AQSIS_LOG_ERROR(services().errorHandler(), EqE_BadHandle) << ... name
LogError(w, name) ==
    [w EXCEPT !.errorHandler = Append(@, [code |-> "EqE_BadHandle", name |-> name])]

(***************************************************************************)
(* The handlers of InlineArchiveFilter.                                     *)
(***************************************************************************)
ArchiveBegin_NoNesting(w, name, pList) ==
    [w EXCEPT !.m_archives = Append(@, CachedRiStream(name)),
              !.m_currCache = [reg |-> "archives", idx |-> Len(w.m_archives) + 1]]

\* re-opens an existing archive of that name instead of creating a new one
ArchiveBegin_Reuse(w, name, pList) ==
    IF w.m_currCache # NULL
    THEN push_back([w EXCEPT !.m_nested = @ + 1],
                   RiCache("ArchiveBegin", name, pList))
    ELSE IF Find(w.m_archives, name) # 0
         THEN [w EXCEPT !.m_currCache = [reg |-> "archives",
                                         idx |-> Find(w.m_archives, name)]]
         ELSE [w EXCEPT !.m_archives = Append(@, CachedRiStream(name)),
                        !.m_currCache = [reg |-> "archives",
                                         idx |-> Len(w.m_archives) + 1]]

\* m_currCache = m_archives.front() instead of m_archives.back()
ArchiveBegin_Front(w, name, pList) ==
    IF w.m_currCache # NULL
    THEN push_back([w EXCEPT !.m_nested = @ + 1],
                   RiCache("ArchiveBegin", name, pList))
    ELSE [w EXCEPT !.m_archives = Append(@, CachedRiStream(name)),
                   !.m_currCache = [reg |-> "archives", idx |-> 1]]

\* counts the outer ArchiveBegin as a nesting level too
ArchiveBegin_CountsOuter(w, name, pList) ==
    IF w.m_currCache # NULL
    THEN push_back([w EXCEPT !.m_nested = @ + 1],
                   RiCache("ArchiveBegin", name, pList))
    ELSE [w EXCEPT !.m_archives = Append(@, CachedRiStream(name)),
                   !.m_currCache = [reg |-> "archives",
                                    idx |-> Len(w.m_archives) + 1],
                   !.m_nested = @ + 1]

\* an archive recorded again under a known name replaces the earlier log
ArchiveBegin_Replace(w, name, pList) ==
    IF w.m_currCache # NULL
    THEN push_back([w EXCEPT !.m_nested = @ + 1],
                   RiCache("ArchiveBegin", name, pList))
    ELSE IF Find(w.m_archives, name) # 0
         THEN [w EXCEPT !.m_archives[Find(w.m_archives, name)] = CachedRiStream(name),
                        !.m_currCache = [reg |-> "archives",
                                         idx |-> Find(w.m_archives, name)]]
         ELSE [w EXCEPT !.m_archives = Append(@, CachedRiStream(name)),
                        !.m_currCache = [reg |-> "archives",
                                         idx |-> Len(w.m_archives) + 1]]

ArchiveBegin(w, name, pList) ==
    IF w.m_currCache # NULL
    THEN push_back([w EXCEPT !.m_nested = @ + 1],
                   RiCache("ArchiveBegin", name, pList))
    ELSE [w EXCEPT !.m_archives = Append(@, CachedRiStream(name)),
                   !.m_currCache = [reg |-> "archives",
                                    idx |-> Len(w.m_archives) + 1]]

ArchiveEnd_NoNesting(w) == [w EXCEPT !.m_currCache = NULL]

\* passes an ArchiveEnd that closes nothing on to the next filter
ArchiveEnd_Forwards(w) ==
    IF w.m_currCache # NULL /\ w.m_nested # 0
    THEN [push_back(w, RiCache("ArchiveEnd", "", <<>>)) EXCEPT !.m_nested = @ - 1]
    ELSE IF w.m_currCache # NULL
         THEN [w EXCEPT !.m_currCache = NULL]
         ELSE Forward(w, RiCache("ArchiveEnd", "", <<>>))

ArchiveEnd(w) ==
    IF w.m_currCache # NULL /\ w.m_nested # 0
    THEN [push_back(w, RiCache("ArchiveEnd", "", <<>>)) EXCEPT !.m_nested = @ - 1]
    ELSE [w EXCEPT !.m_currCache = NULL]

\* reports the miss as ObjectInstance does instead of delegating it
ReadArchive_ErrorOnMiss(w, name, args) ==
    IF w.m_currCache # NULL
    THEN push_back(w, RiCache("ReadArchive", name, args))
    ELSE IF Find(w.m_archives, name) # 0
         THEN replay(w, "archives", Find(w.m_archives, name), "firstFilter")
         ELSE LogError(w, name)

\* the `return` after the replay is missing: the call is also passed on
ReadArchive_FallsThrough(w, name, args) ==
    IF w.m_currCache # NULL
    THEN push_back(w, RiCache("ReadArchive", name, args))
    ELSE IF Find(w.m_archives, name) # 0
         THEN Forward(replay(w, "archives", Find(w.m_archives, name), "firstFilter"),
                      RiCache("ReadArchive", name, args))
         ELSE Forward(w, RiCache("ReadArchive", name, args))

\* searches m_objectInstances instead of m_archives
ReadArchive_SearchObjects(w, name, args) ==
    IF w.m_currCache # NULL
    THEN push_back(w, RiCache("ReadArchive", name, args))
    ELSE IF Find(w.m_objectInstances, name) # 0
         THEN replay(w, "objects", Find(w.m_objectInstances, name), "firstFilter")
         ELSE Forward(w, RiCache("ReadArchive", name, args))

\* a cycle check: an archive that is being replayed is not replayed again
ReadArchive_CycleCheck(w, name, args) ==
    IF w.m_currCache # NULL
    THEN push_back(w, RiCache("ReadArchive", name, args))
    ELSE IF Find(w.m_archives, name) # 0
         THEN IF \E i \in 1..Len(w.callStack) :
                    /\ w.callStack[i].reg = "archives"
                    /\ w.callStack[i].idx = Find(w.m_archives, name)
              THEN w
              ELSE replay(w, "archives", Find(w.m_archives, name), "firstFilter")
         ELSE Forward(w, RiCache("ReadArchive", name, args))

\* replays into nextFilter() instead of services().firstFilter()
ReadArchive_IntoNext(w, name, args) ==
    IF w.m_currCache # NULL
    THEN push_back(w, RiCache("ReadArchive", name, args))
    ELSE IF Find(w.m_archives, name) # 0
         THEN replay(w, "archives", Find(w.m_archives, name), "nextFilter")
         ELSE Forward(w, RiCache("ReadArchive", name, args))

\* the search loop runs from the back: the latest archive of that name wins
ReadArchive_LastMatch(w, name, args) ==
    IF w.m_currCache # NULL
    THEN push_back(w, RiCache("ReadArchive", name, args))
    ELSE IF Find(w.m_archives, name) # 0
         THEN replay(w, "archives",
                     CHOOSE i \in 1..Len(w.m_archives) :
                        /\ w.m_archives[i].name = name
                        /\ \A j \in (i + 1)..Len(w.m_archives) :
                              w.m_archives[j].name # name,
                     "firstFilter")
         ELSE Forward(w, RiCache("ReadArchive", name, args))

\* the name is only tested for presence: the first archive is replayed
ReadArchive_FirstArchive(w, name, args) ==
    IF w.m_currCache # NULL
    THEN push_back(w, RiCache("ReadArchive", name, args))
    ELSE IF Find(w.m_archives, name) # 0
         THEN replay(w, "archives", 1, "firstFilter")
         ELSE Forward(w, RiCache("ReadArchive", name, args))

ReadArchive(w, name, args) ==
    IF w.m_currCache # NULL
    THEN push_back(w, RiCache("ReadArchive", name, args))
    ELSE IF Find(w.m_archives, name) # 0
         THEN replay(w, "archives", Find(w.m_archives, name), "firstFilter")
         ELSE Forward(w, RiCache("ReadArchive", name, args))

\* re-opens an existing object of that name instead of creating a new one
ObjectBegin_Reuse(w, name) ==
    IF w.m_currCache # NULL
    THEN push_back(w, RiCache("ObjectBegin", name, <<>>))
    ELSE IF Find(w.m_objectInstances, name) # 0
         THEN [w EXCEPT !.m_currCache = [reg |-> "objects",
                                         idx |-> Find(w.m_objectInstances, name)],
                        !.m_inObject = TRUE]
         ELSE [w EXCEPT !.m_objectInstances = Append(@, CachedRiStream(name)),
                        !.m_currCache = [reg |-> "objects",
                                         idx |-> Len(w.m_objectInstances) + 1],
                        !.m_inObject = TRUE]

\* m_inObject = true is missing
ObjectBegin_NoFlag(w, name) ==
    IF w.m_currCache # NULL
    THEN push_back(w, RiCache("ObjectBegin", name, <<>>))
    ELSE [w EXCEPT !.m_objectInstances = Append(@, CachedRiStream(name)),
                   !.m_currCache = [reg |-> "objects",
                                    idx |-> Len(w.m_objectInstances) + 1]]

\* nests: an ObjectBegin inside a recording opens a new object log too
ObjectBegin_Nests(w, name) ==
    [w EXCEPT !.m_objectInstances = Append(@, CachedRiStream(name)),
              !.m_currCache = [reg |-> "objects",
                               idx |-> Len(w.m_objectInstances) + 1],
              !.m_inObject = TRUE]

\* m_currCache = m_objectInstances.front() instead of m_objectInstances.back()
ObjectBegin_Front(w, name) ==
    IF w.m_currCache # NULL
    THEN push_back(w, RiCache("ObjectBegin", name, <<>>))
    ELSE [w EXCEPT !.m_objectInstances = Append(@, CachedRiStream(name)),
                   !.m_currCache = [reg |-> "objects", idx |-> 1],
                   !.m_inObject = TRUE]

ObjectBegin(w, name) ==
    IF w.m_currCache # NULL
    THEN push_back(w, RiCache("ObjectBegin", name, <<>>))
    ELSE [w EXCEPT !.m_objectInstances = Append(@, CachedRiStream(name)),
                   !.m_currCache = [reg |-> "objects",
                                    idx |-> Len(w.m_objectInstances) + 1],
                   !.m_inObject = TRUE]

\* reports the scoping error instead of ignoring it
ObjectEnd_LogsError(w) ==
    IF w.m_currCache # NULL /\ ~w.m_inObject
    THEN push_back(w, RiCache("ObjectEnd", "", <<>>))
    ELSE IF w.m_currCache # NULL
         THEN [w EXCEPT !.m_inObject = FALSE, !.m_currCache = NULL]
         ELSE LogError(w, "")

ObjectEnd(w) ==
    IF w.m_currCache # NULL /\ ~w.m_inObject
    THEN push_back(w, RiCache("ObjectEnd", "", <<>>))
    ELSE IF w.m_currCache # NULL
         THEN [w EXCEPT !.m_inObject = FALSE, !.m_currCache = NULL]
         ELSE w

\* searches m_archives instead of m_objectInstances
ObjectInstance_SearchArchives(w, name) ==
    IF w.m_currCache # NULL
    THEN push_back(w, RiCache("ObjectInstance", name, <<>>))
    ELSE IF Find(w.m_archives, name) # 0
         THEN replay(w, "archives", Find(w.m_archives, name), "firstFilter")
         ELSE LogError(w, name)

\* replays into nextFilter() instead of services().firstFilter()
ObjectInstance_IntoNext(w, name) ==
    IF w.m_currCache # NULL
    THEN push_back(w, RiCache("ObjectInstance", name, <<>>))
    ELSE IF Find(w.m_objectInstances, name) # 0
         THEN replay(w, "objects", Find(w.m_objectInstances, name), "nextFilter")
         ELSE LogError(w, name)

\* the search comes before the m_currCache test: a known instance is
\* replayed at once even inside a recording
ObjectInstance_NoDefer(w, name) ==
    IF Find(w.m_objectInstances, name) # 0
    THEN replay(w, "objects", Find(w.m_objectInstances, name), "firstFilter")
    ELSE IF w.m_currCache # NULL
         THEN push_back(w, RiCache("ObjectInstance", name, <<>>))
         ELSE LogError(w, name)

\* treats the instance like an ObjectBegin as well: a new log of that name
\* is opened before the replay
ObjectInstance_OpensLog(w, name) ==
    IF w.m_currCache # NULL
    THEN push_back(w, RiCache("ObjectInstance", name, <<>>))
    ELSE IF Find(w.m_objectInstances, name) # 0
         THEN replay([w EXCEPT !.m_objectInstances = Append(@, CachedRiStream(name)),
                               !.m_currCache = [reg |-> "objects",
                                                idx |-> Len(w.m_objectInstances) + 1],
                               !.m_inObject = TRUE],
                     "objects", Find(w.m_objectInstances, name), "firstFilter")
         ELSE LogError(w, name)

ObjectInstance(w, name) ==
    IF w.m_currCache # NULL
    THEN push_back(w, RiCache("ObjectInstance", name, <<>>))
    ELSE IF Find(w.m_objectInstances, name) # 0
         THEN replay(w, "objects", Find(w.m_objectInstances, name), "firstFilter")
         ELSE LogError(w, name)

ArchiveRecord(w, type, string) ==
    IF w.m_currCache = NULL
    THEN Forward(w, RiCache("ArchiveRecord", type, string))
    ELSE w

methodTemplate_NoForward(w, cmd) ==
    IF w.m_currCache # NULL
    THEN push_back(w, RiCache(cmd.op, cmd.name, cmd.args))
    ELSE w

\* the generated methods (Declare, FrameBegin, ..., ErrorHandler)
methodTemplate(w, cmd) ==
    IF w.m_currCache # NULL
    THEN push_back(w, RiCache(cmd.op, cmd.name, cmd.args))
    ELSE Forward(w, RiCache(cmd.op, cmd.name, cmd.args))

\* one call of the Ri::Renderer interface on the filter (virtual dispatch)
Dispatch(w, cmd) ==
    CASE cmd.op = "ArchiveBegin"   -> ArchiveBegin(w, cmd.name, cmd.args)
      [] cmd.op = "ArchiveEnd"     -> ArchiveEnd(w)
      [] cmd.op = "ReadArchive"    -> ReadArchive(w, cmd.name, cmd.args)
      [] cmd.op = "ObjectBegin"    -> ObjectBegin(w, cmd.name)
      [] cmd.op = "ObjectEnd"      -> ObjectEnd(w)
      [] cmd.op = "ObjectInstance" -> ObjectInstance(w, cmd.name)
      [] cmd.op = "ArchiveRecord"  -> ArchiveRecord(w, cmd.name, cmd.args)
      [] OTHER                     -> methodTemplate(w, cmd)

(***************************************************************************)
(* CachedRiStream::replay: the loop over the cached calls.  One step of the *)
(* innermost active replay either re-issues its next call on the first      *)
(* filter or, past the last call, returns to its caller.                    *)
(***************************************************************************)
Top(w) == w.callStack[Len(w.callStack)]

TopLog(w) == Registry(w, Top(w).reg)[Top(w).idx]

ReplayDone(w) == Top(w).pc > Len(TopLog(w).cmds)

\* services().firstFilter(): the first stage of the chain receives the call
\* and passes it on to the inline-archive filter
Deliver(w, cmd) == Dispatch([w EXCEPT !.firstFilter = Append(@, cmd)], cmd)

ReplayCall(w) ==
    IF Top(w).target = "firstFilter"
    THEN Deliver([w EXCEPT !.callStack[Len(w.callStack)].pc = @ + 1],
                 TopLog(w).cmds[Top(w).pc])
    ELSE Forward([w EXCEPT !.callStack[Len(w.callStack)].pc = @ + 1],
                 TopLog(w).cmds[Top(w).pc])

ReplayExit(w) ==
    [w EXCEPT !.callStack = SubSeq(@, 1, Len(@) - 1)]

(***************************************************************************)
(* The calls of the upstream source.                                        *)
(***************************************************************************)
BeginArchive(n)        == RiCache("ArchiveBegin", n, <<0>>)
EndArchive             == RiCache("ArchiveEnd", "", <<>>)
ReadArchiveOp(n)       == RiCache("ReadArchive", n, <<1, 2>>)
BeginObjectInstance(n) == RiCache("ObjectBegin", n, <<>>)
EndObjectInstance      == RiCache("ObjectEnd", "", <<>>)
ObjectInstanceOp(n)    == RiCache("ObjectInstance", n, <<>>)
ArchiveRecordOp        == RiCache("ArchiveRecord", "comment", <<7>>)
Foo(k)                 == RiCache("FrameBegin", "", <<k>>)
Bar(k)                 == RiCache("Sides", "", <<k>>)
Baz(k)                 == RiCache("ShadingRate", "", <<k>>)

ScopeOps == {"ArchiveBegin", "ArchiveEnd", "ReadArchive",
             "ObjectBegin", "ObjectEnd", "ObjectInstance"}

FreeCommands ==
    {BeginArchive(n) : n \in Names} \cup {ReadArchiveOp(n) : n \in Names}
    \cup {BeginObjectInstance(n) : n \in Names}
    \cup {ObjectInstanceOp(n) : n \in Names}
    \cup {EndArchive, EndObjectInstance, ArchiveRecordOp, Foo(1)}

\* recording sessions the source plays before it issues calls freely
ScriptScenario ==
    <<BeginArchive("X"), Foo(1), BeginArchive("Y"), Bar(2), EndArchive,
      Baz(3), EndArchive>>
ScriptNesting(a, b) == <<BeginArchive(a), BeginArchive(b), EndArchive, EndArchive>>
ScriptForwardRef ==
    <<BeginArchive("X"), ReadArchiveOp("Y"), BeginArchive("Y"), Foo(1),
      EndArchive, EndArchive>>
ScriptObjForwardRef ==
    <<BeginObjectInstance("X"), ReadArchiveOp("Y"), BeginArchive("Y"), Foo(1),
      EndArchive, EndObjectInstance>>
ScriptRecord == <<BeginArchive("X"), ArchiveRecordOp, EndArchive>>
ScriptChain ==
    <<BeginArchive("Y"), Foo(1), EndArchive, BeginArchive("X"),
      ReadArchiveOp("Y"), Bar(2), EndArchive>>
ScriptObject == <<BeginObjectInstance("X"), Foo(1), Bar(2), EndObjectInstance>>

ScriptObjSelf ==
    <<BeginObjectInstance("X"), BeginObjectInstance("X"), EndObjectInstance>>

ScriptLeak ==
    <<BeginObjectInstance("X"), BeginArchive("Y"), EndObjectInstance>>
ScriptStaleFlag == <<BeginObjectInstance("X"), EndArchive>>
ScriptBothKinds ==
    <<BeginArchive("X"), Foo(1), EndArchive, BeginObjectInstance("X"), Bar(2),
      EndObjectInstance>>
ScriptSelfRef == <<BeginArchive("X"), Foo(1), ReadArchiveOp("X"), EndArchive>>
ScriptSelfEscape ==
    <<BeginObjectInstance("Y"), BeginObjectInstance("Y"), EndObjectInstance,
      BeginArchive("X"), ObjectInstanceOp("Y"), ReadArchiveOp("X"), EndArchive>>
ScriptEndInLog ==
    <<BeginObjectInstance("X"), BeginArchive("Y"), EndObjectInstance,
      BeginArchive("X"), EndArchive, EndArchive>>

Scripts ==
    {<<>>, ScriptScenario, ScriptObjSelf, ScriptNesting("X", "Y"), ScriptNesting("Y", "X"),
     ScriptForwardRef, ScriptObjForwardRef, ScriptRecord, ScriptChain,
     ScriptObject, ScriptLeak, ScriptStaleFlag, ScriptBothKinds, ScriptSelfRef,
     ScriptSelfEscape, ScriptEndInLog}

IsPrefix(s, t) == Len(s) <= Len(t) /\ SubSeq(t, 1, Len(s)) = s

\* the inputs explored: a script, or a script followed by up to MaxFree free calls
Allowed(s) ==
    \E p \in Scripts :
        \/ IsPrefix(s, p)
        \/ /\ IsPrefix(p, s)
           /\ Len(s) <= Len(p) + MaxFree
           /\ \A i \in (Len(p) + 1)..Len(s) : s[i] \in FreeCommands

\* every call that occurs in the explored inputs
Commands == FreeCommands \cup {Bar(2), Baz(3)}

(***************************************************************************)
(* CqSocket (aqsistypes/posix/socket_system.cpp).  The methods act on a     *)
(* record of the object's members, the descriptors the operating system     *)
(* holds open, the system calls made so far and the value returned.  The    *)
(* outcome of each system call is an input of the method.                   *)
(***************************************************************************)
INVALID_SOCKET == -1

\* descriptors socket() may hand out, ports and hosts used by the callers
Descriptors == {3, 4}
Ports == {7000, 7001}
Hosts == {"127.0.0.1", "localhost"}

\* inet_addr(): INADDR_NONE, which equals INVALID_SOCKET as an in_addr_t,
\* unless the string is a dotted-quad address
inet_addr(hostname) == IF hostname = "127.0.0.1" THEN 1 ELSE INVALID_SOCKET

Socket ==
    [m_socket |-> m_socket, m_port |-> m_port, os |-> os, aborted |-> aborted,
     sys |-> <<>>, ret |-> TRUE]

\* CqSocket::CqSocket()
FreshSocket ==
    [m_socket |-> INVALID_SOCKET, m_port |-> 0, os |-> {}, aborted |-> FALSE,
     sys |-> <<>>, ret |-> TRUE]

\* ::socket(AF_INET, SOCK_STREAM, 0) returning fd, a new descriptor or -1
sys_socket(k, fd) ==
    [k EXCEPT !.m_socket = fd,
              !.os = IF fd = INVALID_SOCKET THEN @ ELSE @ \cup {fd},
              !.sys = Append(@, "socket")]

\* void CqSocket::close()
close(k) ==
    [k EXCEPT !.os = @ \ {k.m_socket},
              !.m_socket = INVALID_SOCKET,
              !.sys = Append(@, "close")]

\* bool CqSocket::open()
open(k, fd) ==
    IF fd = INVALID_SOCKET
    THEN [sys_socket(k, fd) EXCEPT !.ret = FALSE]
    ELSE [sys_socket(k, fd) EXCEPT !.sys = Append(@, "setsockopt"), !.ret = TRUE]

\* records the port before ::bind is attempted
bind_RecordsFirst(k, port, ok) ==
    IF ~ok
    THEN [close([k EXCEPT !.sys = Append(@, "bind"), !.m_port = port])
            EXCEPT !.ret = FALSE]
    ELSE [k EXCEPT !.sys = Append(@, "bind"), !.m_port = port, !.ret = TRUE]

\* bool CqSocket::bind(port); ok: ::bind did not return -1
bind(k, port, ok) ==
    IF ~ok
    THEN [close([k EXCEPT !.sys = Append(@, "bind")]) EXCEPT !.ret = FALSE]
    ELSE [k EXCEPT !.sys = Append(@, "bind"), !.m_port = port, !.ret = TRUE]

\* bool CqSocket::listen(); ok: ::listen did not return -1
listen(k, ok) ==
    IF ~ok
    THEN [close([k EXCEPT !.sys = Append(@, "listen")]) EXCEPT !.ret = FALSE]
    ELSE [k EXCEPT !.sys = Append(@, "listen"), !.ret = TRUE]

\* bool CqSocket::prepare(port)
prepare(k, port, fd, bindOk, listenOk) ==
    IF open(k, fd).ret
    THEN IF bind(open(k, fd), port, bindOk).ret
         THEN IF listen(bind(open(k, fd), port, bindOk), listenOk).ret
              THEN listen(bind(open(k, fd), port, bindOk), listenOk)
              ELSE [listen(bind(open(k, fd), port, bindOk), listenOk)
                        EXCEPT !.ret = FALSE]
         ELSE [bind(open(k, fd), port, bindOk) EXCEPT !.ret = FALSE]
    ELSE [open(k, fd) EXCEPT !.ret = FALSE]

\* bool CqSocket::connect(hostname, port); ok: ::connect returned 0, which
\* it cannot on a descriptor that socket() failed to create
connect(k, hostname, port, fd, ok) ==
    IF ~(k.m_socket = -1 /\ k.m_port = 0)
    THEN [k EXCEPT !.aborted = TRUE, !.ret = FALSE]
    ELSE IF inet_addr(hostname) = INVALID_SOCKET
         THEN [sys_socket(k, fd) EXCEPT !.ret = FALSE]
         ELSE IF ~(ok /\ fd # INVALID_SOCKET)
              THEN [close([sys_socket(k, fd) EXCEPT !.sys = Append(@, "connect")])
                        EXCEPT !.m_socket = INVALID_SOCKET, !.ret = FALSE]
              ELSE [sys_socket(k, fd) EXCEPT !.sys = Append(@, "connect"),
                                             !.m_port = port, !.ret = TRUE]

\* CqSocket::operator bool()
operator_bool(k) == k.m_socket # INVALID_SOCKET

(***************************************************************************)
(* sendData / recvData over a connected pair of sockets: what one end sends *)
(* the other end receives, in order.  send() accepts any positive number of *)
(* the bytes offered; recv() blocks until a byte is there.                  *)
(***************************************************************************)
\* messages exchanged: at most MaxMsgs, of at most MaxLen bytes, none NUL
MaxMsgs == 2
MaxLen == 2
Bytes == {1, 2}
NUL == 0

Messages == UNION {[1..n -> Bytes] : n \in 0..MaxLen}

\* values the uninitialised local `total` of recvData may hold
Indeterminate == {0, 9}

Wire == [wire |-> wire, tx |-> tx, rx |-> rx, sentLog |-> sentLog, recvLog |-> recvLog]

\* sendData: TqInt tot = 0, need = data.length()
sendData_begin(c, data) ==
    [c EXCEPT !.tx = [pc |-> "loop", data |-> data, tot |-> 0,
                      need |-> Len(data), ret |-> 0]]

\* sendData: one turn of the while loop, send() having accepted n bytes
sendData_loop(c, n) ==
    [c EXCEPT !.wire = @ \o SubSeq(c.tx.data, c.tx.tot + 1, c.tx.tot + n),
              !.tx.need = @ - n,
              !.tx.tot = @ + n]

\* the terminator is counted but not sent
sendData_terminator_Skipped(c) ==
    [c EXCEPT !.tx.tot = @ + 1,
              !.tx.ret = c.tx.tot + 1,
              !.tx.pc = "idle",
              !.sentLog = Append(@, c.tx.data)]

\* sendData: after the loop, the terminator is sent and tot returned
sendData_terminator(c) ==
    [c EXCEPT !.wire = Append(@, NUL),
              !.tx.tot = @ + 1,
              !.tx.ret = c.tx.tot + 1,
              !.tx.pc = "idle",
              !.sentLog = Append(@, c.tx.data)]

\* recvData: entry; `total` is not initialised
recvData_begin(c, garbage) ==
    [c EXCEPT !.rx = [pc |-> "loop", put |-> <<>>, total |-> garbage, ret |-> 0]]

\* recvData: one turn of the while loop in which recv() delivered a byte
recvData_loop(c) ==
    IF Head(c.wire) = NUL
    THEN [c EXCEPT !.wire = Tail(@),
                   !.rx.pc = "idle",
                   !.rx.ret = c.rx.total,
                   !.recvLog = Append(@, c.rx.put)]
    ELSE [c EXCEPT !.wire = Tail(@),
                   !.rx.put = Append(@, Head(c.wire)),
                   !.rx.total = @ + 1]

(***************************************************************************)
(* The state machine.                                                       *)
(***************************************************************************)
Set(w) ==
    /\ m_archives' = w.m_archives
    /\ m_objectInstances' = w.m_objectInstances
    /\ m_currCache' = w.m_currCache
    /\ m_nested' = w.m_nested
    /\ m_inObject' = w.m_inObject
    /\ callStack' = w.callStack
    /\ firstFilter' = w.firstFilter
    /\ nextFilter' = w.nextFilter
    /\ errorHandler' = w.errorHandler
    /\ UNCHANGED <<socketVars, wireVars>>

NoCall == RiCache("", "", <<>>)

InitSocket ==
    /\ m_socket = FreshSocket.m_socket
    /\ m_port = FreshSocket.m_port
    /\ os = FreshSocket.os
    /\ aborted = FreshSocket.aborted
    /\ last = [op |-> "none", hostname |-> "", port |-> 0, ret |-> TRUE,
               sys |-> <<>>, pre |-> FreshSocket, n |-> 0]

InitWire ==
    /\ wire = <<>>
    /\ tx = [pc |-> "idle", data |-> <<>>, tot |-> 0, need |-> 0, ret |-> 0]
    /\ rx = [pc |-> "idle", put |-> <<>>, total |-> 0, ret |-> 0]
    /\ sentLog = <<>>
    /\ recvLog = <<>>

Init ==
    /\ m_archives = <<>>
    /\ m_objectInstances = <<>>
    /\ m_currCache = NULL
    /\ m_nested = 0
    /\ m_inObject = FALSE
    /\ callStack = <<>>
    /\ firstFilter = <<>>
    /\ nextFilter = <<>>
    /\ errorHandler = <<>>
    /\ input = <<>>
    /\ trig = <<>>
    /\ pre = Fresh
    /\ delivered = [cmd |-> NoCall, via |-> "init"]
    /\ InitSocket
    /\ InitWire

\* the source issues its next call on the first stage of the chain
Source ==
    /\ callStack = <<>>
    /\ \E cmd \in Commands :
        /\ Allowed(Append(input, cmd))
        /\ input' = Append(input, cmd)
        /\ trig' = Append(trig, World)
        /\ pre' = World
        /\ delivered' = [cmd |-> cmd, via |-> "source"]
        /\ Set(Deliver(World, cmd))

\* the innermost replay re-issues its next cached call on the first filter
ReplayStep ==
    /\ callStack # <<>>
    /\ ~ReplayDone(World)
    /\ Len(ReplayCall(World).callStack) <= MaxDepth
    /\ pre' = World
    /\ delivered' = [cmd |-> TopLog(World).cmds[Top(World).pc], via |-> "replay"]
    /\ Set(ReplayCall(World))
    /\ UNCHANGED <<input, trig>>

\* the innermost replay has re-issued its last call and returns
ReplayReturn ==
    /\ callStack # <<>>
    /\ ReplayDone(World)
    /\ pre' = World
    /\ delivered' = [cmd |-> NoCall, via |-> "return"]
    /\ Set(ReplayExit(World))
    /\ UNCHANGED <<input, trig>>

Next == Source \/ ReplayStep \/ ReplayReturn

Spec == Init /\ [][Next]_vars

(***************************************************************************)
(* Termination.  Once a call is made the C++ control flow runs on by        *)
(* itself: an active replay loop takes its next step, and a loop that has   *)
(* re-issued its last call returns.  The source is the environment and is   *)
(* under no obligation to issue a call.  The sessions explored here are     *)
(* recordings whose logs refer to each other, followed by free calls.       *)
(***************************************************************************)
ScriptLateCycle ==
    <<BeginArchive("X"), BeginArchive("Y"), ReadArchiveOp("Y"), EndArchive,
      ReadArchiveOp("Y"), EndArchive>>
ScriptRefFirst ==
    <<BeginArchive("X"), ReadArchiveOp("Y"), EndArchive, BeginArchive("Y"),
      Foo(1), EndArchive>>
ScriptObjChain ==
    <<BeginArchive("Y"), Foo(1), EndArchive, BeginObjectInstance("X"),
      ReadArchiveOp("Y"), Bar(2), EndObjectInstance>>

TermScripts ==
    {<<>>, ScriptChain, ScriptRefFirst, ScriptObjChain, ScriptLateCycle,
     ScriptSelfRef, ScriptScenario, ScriptObject}

\* the calls issued freely after a recording: references, and calls that
\* open no recording
TermCommands ==
    {ReadArchiveOp(n) : n \in Names} \cup {ObjectInstanceOp(n) : n \in Names}
    \cup {EndArchive, EndObjectInstance, Foo(1)}

AllowedT(s) ==
    \E p \in TermScripts :
        \/ IsPrefix(s, p)
        \/ /\ IsPrefix(p, s)
           /\ Len(s) <= Len(p) + MaxFree
           /\ \A i \in (Len(p) + 1)..Len(s) : s[i] \in TermCommands

SourceT ==
    /\ callStack = <<>>
    /\ \E cmd \in Commands :
        /\ AllowedT(Append(input, cmd))
        /\ input' = Append(input, cmd)
        /\ trig' = Append(trig, World)
        /\ pre' = World
        /\ delivered' = [cmd |-> cmd, via |-> "source"]
        /\ Set(Deliver(World, cmd))

NextT == SourceT \/ ReplayStep \/ ReplayReturn

TermSpec ==
    Init /\ [][NextT]_vars /\ WF_vars(ReplayStep) /\ WF_vars(ReplayReturn)

(***************************************************************************)
(* A caller of one CqSocket object: it calls prepare, connect and close in  *)
(* any order, at most MaxCalls times; the system calls succeed or fail.     *)
(***************************************************************************)
MaxCalls == 3

SetSocket(k, op, hostname, port) ==
    /\ m_socket' = k.m_socket
    /\ m_port' = k.m_port
    /\ os' = k.os
    /\ aborted' = k.aborted
    /\ last' = [op |-> op, hostname |-> hostname, port |-> port, ret |-> k.ret,
                sys |-> k.sys, pre |-> Socket, n |-> last.n + 1]
    /\ UNCHANGED <<filterVars, wireVars>>

\* what socket() may return: a descriptor that is not open, or -1
NewDescriptors == (Descriptors \ os) \cup {INVALID_SOCKET}

CallPrepare ==
    /\ ~aborted
    /\ last.n < MaxCalls
    /\ \E port \in Ports, fd \in NewDescriptors, bindOk \in BOOLEAN, listenOk \in BOOLEAN :
         SetSocket(prepare(Socket, port, fd, bindOk, listenOk), "prepare", "", port)

CallConnect ==
    /\ ~aborted
    /\ last.n < MaxCalls
    /\ \E hostname \in Hosts, port \in Ports, fd \in NewDescriptors, ok \in BOOLEAN :
         SetSocket(connect(Socket, hostname, port, fd, ok), "connect", hostname, port)

CallClose ==
    /\ ~aborted
    /\ last.n < MaxCalls
    /\ SetSocket(close(Socket), "close", "", 0)

SocketNext == CallPrepare \/ CallConnect \/ CallClose

SocketSpec == Init /\ [][SocketNext]_vars

(***************************************************************************)
(* The two ends of a connected pair: one calls sendData, message after      *)
(* message, the other calls recvData again and again.                       *)
(***************************************************************************)
SetWire(c) ==
    /\ wire' = c.wire
    /\ tx' = c.tx
    /\ rx' = c.rx
    /\ sentLog' = c.sentLog
    /\ recvLog' = c.recvLog
    /\ UNCHANGED <<filterVars, socketVars>>

SendBegin ==
    /\ tx.pc = "idle"
    /\ Len(sentLog) < MaxMsgs
    /\ \E data \in Messages : SetWire(sendData_begin(Wire, data))

SendLoop ==
    /\ tx.pc = "loop"
    /\ tx.need > 0
    /\ \E n \in 1..tx.need : SetWire(sendData_loop(Wire, n))

SendTerminator ==
    /\ tx.pc = "loop"
    /\ tx.need <= 0
    /\ SetWire(sendData_terminator(Wire))

RecvBegin ==
    /\ rx.pc = "idle"
    /\ Len(recvLog) < MaxMsgs
    /\ \E garbage \in Indeterminate : SetWire(recvData_begin(Wire, garbage))

RecvLoop ==
    /\ rx.pc = "loop"
    /\ wire # <<>>
    /\ SetWire(recvData_loop(Wire))

WireNext == SendBegin \/ SendLoop \/ SendTerminator \/ RecvBegin \/ RecvLoop

WireSpec == Init /\ [][WireNext]_vars

(***************************************************************************)
(* Synchronous semantics: a call runs every replay it starts to completion  *)
(* before it returns.  Used to compare a run with a run of another input.   *)
(***************************************************************************)
RECURSIVE Drain(_, _)
Drain(w, fuel) ==
    IF w.callStack = <<>> \/ fuel = 0
    THEN w
    ELSE IF ReplayDone(w)
         THEN Drain(ReplayExit(w), fuel - 1)
         ELSE IF Len(ReplayCall(w).callStack) > MaxDepth
              THEN w
              ELSE Drain(ReplayCall(w), fuel - 1)

Fuel == 40

RECURSIVE RunAll(_, _)
RunAll(w, cmds) ==
    IF cmds = <<>> \/ w.callStack # <<>>
    THEN w
    ELSE RunAll(Drain(Deliver(w, Head(cmds)), Fuel), Tail(cmds))

(***************************************************************************)
(* Vocabulary of the properties.                                            *)
(***************************************************************************)
\* the last call has returned to the source
Returned == callStack = <<>>

\* the scope state and the two registries of a world
FilterState(w) ==
    <<w.m_archives, w.m_objectInstances, w.m_currCache, w.m_nested, w.m_inObject>>

Idle(w) == w.m_currCache = NULL /\ w.m_nested = 0 /\ ~w.m_inObject

\* the last step delivered a call to the filter (from the source or a replay)
Called == delivered.via \in {"source", "replay"}

\* what the k-th call of the source forwarded, once the (k+1)-th was issued
\* or, for the last call, up to now
OutputOf(k) ==
    SubSeq(IF k < Len(input) THEN trig[k + 1].nextFilter ELSE nextFilter,
           Len(trig[k].nextFilter) + 1,
           IF k < Len(input) THEN Len(trig[k + 1].nextFilter) ELSE Len(nextFilter))

\* archive Begin/End are balanced inside s
RECURSIVE Depth(_)
Depth(s) ==
    IF s = <<>> THEN 0
    ELSE Depth(SubSeq(s, 1, Len(s) - 1))
         + (IF s[Len(s)].op = "ArchiveBegin" THEN 1
            ELSE IF s[Len(s)].op = "ArchiveEnd" THEN -1 ELSE 0)

Balanced(s) ==
    /\ Depth(s) = 0
    /\ \A i \in 1..Len(s) : Depth(SubSeq(s, 1, i)) >= 0

\* the calls that neither open or close a scope nor refer to a log
PlainOps == {"ArchiveRecord", "FrameBegin", "Sides", "ShadingRate"}

\* log `cmds` holds a ReadArchive(n) that only plain calls precede
SelfRefAfterPlain(cmds, n) ==
    \E j \in 1..Len(cmds) :
        /\ cmds[j].op = "ReadArchive"
        /\ cmds[j].name = n
        /\ \A i \in 1..(j - 1) : cmds[i].op \in PlainOps

\* log `cmds` holds a ReadArchive(n) that no scope bracket precedes
SelfRefAtTopLevel(cmds, n) ==
    \E j \in 1..Len(cmds) :
        /\ cmds[j].op = "ReadArchive"
        /\ cmds[j].name = n
        /\ \A i \in 1..(j - 1) :
              cmds[i].op \notin {"ArchiveBegin", "ArchiveEnd", "ObjectBegin", "ObjectEnd"}

\* the log that the last call of the source, a resolved ReadArchive, replays
TriggeredArchive ==
    trig[Len(input)].m_archives[
        Find(trig[Len(input)].m_archives, input[Len(input)].name)].cmds

\* the world after `cmd` was appended to the current log of `w`
Buffered(w, cmd) ==
    IF w.m_currCache.reg = "archives"
    THEN /\ m_archives = [w.m_archives EXCEPT
                              ![w.m_currCache.idx].cmds = Append(@, cmd)]
         /\ m_objectInstances = w.m_objectInstances
    ELSE /\ m_objectInstances = [w.m_objectInstances EXCEPT
                                      ![w.m_currCache.idx].cmds = Append(@, cmd)]
         /\ m_archives = w.m_archives

\* the log that the last call of the source, a resolved reference, replays
TriggeredLog ==
    IF input[Len(input)].op = "ReadArchive"
    THEN TriggeredArchive
    ELSE trig[Len(input)].m_objectInstances[
            Find(trig[Len(input)].m_objectInstances, input[Len(input)].name)].cmds

\* log i of registry `reg` is being replayed
InReplay(reg, i) ==
    \E f \in 1..Len(callStack) : callStack[f].reg = reg /\ callStack[f].idx = i

\* the k-th call of the source was a reference that resolved to a log while
\* the filter was not recording
TriggeredAt(k) ==
    /\ trig[k].m_currCache = NULL
    /\ \/ /\ input[k].op = "ReadArchive"
          /\ Find(trig[k].m_archives, input[k].name) # 0
       \/ /\ input[k].op = "ObjectInstance"
          /\ Find(trig[k].m_objectInstances, input[k].name) # 0

\* the log it resolved to
LogAt(k) ==
    IF input[k].op = "ReadArchive"
    THEN trig[k].m_archives[Find(trig[k].m_archives, input[k].name)].cmds
    ELSE trig[k].m_objectInstances[
            Find(trig[k].m_objectInstances, input[k].name)].cmds

\* the k-th call of the source has returned, and the world it returned in
CompletedAt(k) == k < Len(input) \/ Returned

After(k) == IF k < Len(input) THEN trig[k + 1] ELSE World

\* a log without a Begin and without a reference to a log
NoBeginNoReference(cmds) ==
    \A i \in 1..Len(cmds) :
        cmds[i].op \notin {"ArchiveBegin", "ObjectBegin", "ReadArchive", "ObjectInstance"}

\* the logs of a world, and the logs that the references held by a log
\* resolve to, by name, nested or not
LogNodes(w) ==
    {[reg |-> "archives", idx |-> i] : i \in 1..Len(w.m_archives)}
    \cup {[reg |-> "objects", idx |-> i] : i \in 1..Len(w.m_objectInstances)}

RefsOf(w, n) ==
    LET cmds == Registry(w, n.reg)[n.idx].cmds IN
    {[reg |-> "archives", idx |-> Find(w.m_archives, cmds[j].name)] :
        j \in {j \in 1..Len(cmds) :
                 /\ cmds[j].op = "ReadArchive"
                 /\ Find(w.m_archives, cmds[j].name) # 0}}
    \cup
    {[reg |-> "objects", idx |-> Find(w.m_objectInstances, cmds[j].name)] :
        j \in {j \in 1..Len(cmds) :
                 /\ cmds[j].op = "ObjectInstance"
                 /\ Find(w.m_objectInstances, cmds[j].name) # 0}}

RECURSIVE ReachIn(_, _, _)
ReachIn(w, S, k) ==
    IF k = 0 THEN S
    ELSE ReachIn(w, S \cup UNION {RefsOf(w, n) : n \in S}, k - 1)

\* no log of the world reaches itself through references
Acyclic(w) ==
    \A n \in LogNodes(w) :
        n \notin ReachIn(w, RefsOf(w, n), Cardinality(LogNodes(w)))

\* no log of the world holds an ArchiveBegin or an ObjectBegin
NoBeginRecorded(w) ==
    \A n \in LogNodes(w) :
        \A j \in 1..Len(Registry(w, n.reg)[n.idx].cmds) :
            Registry(w, n.reg)[n.idx].cmds[j].op \notin {"ArchiveBegin", "ObjectBegin"}

\* the bytes of a sequence of messages, each followed by its terminator
RECURSIVE Framed(_)
Framed(msgs) ==
    IF msgs = <<>> THEN <<>>
    ELSE Head(msgs) \o <<NUL>> \o Framed(Tail(msgs))

\* every byte the sending end has handed to send() so far
BytesSent ==
    Framed(sentLog) \o (IF tx.pc = "loop" THEN SubSeq(tx.data, 1, tx.tot) ELSE <<>>)

\* every byte the receiving end has taken from recv() so far
BytesReceived ==
    Framed(recvLog) \o (IF rx.pc = "loop" THEN rx.put ELSE <<>>)

\* the system calls of a prepare() that got as far as each step
PrepareOpenFailed == <<"socket">>
PrepareBindFailed == <<"socket", "setsockopt", "bind", "close">>
PrepareListenFailed == <<"socket", "setsockopt", "bind", "listen", "close">>
PrepareDone == <<"socket", "setsockopt", "bind", "listen">>

\* the scenario of the specification's section 8
C1Input == ScriptScenario \o <<ReadArchiveOp("X")>>

\* the last two calls of the source are both `cmd`, and both have returned
TwiceInARow(cmd) ==
    /\ Len(input) >= 2
    /\ input[Len(input)] = cmd
    /\ input[Len(input) - 1] = cmd
    /\ Returned

FirstOfTwo == trig[Len(input) - 1]

SecondOfTwo == trig[Len(input)]

\* the first of the two calls registered no new log
NoLogCreated ==
    /\ Len(SecondOfTwo.m_archives) = Len(FirstOfTwo.m_archives)
    /\ Len(SecondOfTwo.m_objectInstances) = Len(FirstOfTwo.m_objectInstances)

\* the last call of the source started the replay of a log
Triggered ==
    /\ input # <<>>
    /\ trig[Len(input)].m_currCache = NULL
    /\ \/ /\ input[Len(input)].op = "ReadArchive"
          /\ Find(trig[Len(input)].m_archives, input[Len(input)].name) # 0
       \/ /\ input[Len(input)].op = "ObjectInstance"
          /\ Find(trig[Len(input)].m_objectInstances, input[Len(input)].name) # 0

(***************************************************************************)
(* C1.  The scenario BeginArchive(X) Foo(1) BeginArchive(Y) Bar(2)          *)
(* EndArchive Baz(3) EndArchive ReadArchive(X) on a fresh filter: nothing   *)
(* is forwarded before the ReadArchive; the ReadArchive forwards exactly    *)
(* Foo(1), Baz(3) in that order and leaves one archive log named Y holding  *)
(* exactly Bar(2), with the filter idle.                                    *)
(***************************************************************************)
C1_Scenario ==
    /\ IsPrefix(input, ScriptScenario) => nextFilter = <<>>
    /\ input = C1Input => IsPrefix(nextFilter, <<Foo(1), Baz(3)>>)
    /\ (input = C1Input /\ Returned) =>
        /\ nextFilter = <<Foo(1), Baz(3)>>
        /\ Find(m_archives, "Y") # 0
        /\ m_archives[Find(m_archives, "Y")].cmds = <<Bar(2)>>
        /\ Cardinality({i \in 1..Len(m_archives) : m_archives[i].name = "Y"}) = 1
        /\ Idle(World)
        /\ errorHandler = <<>>

C1_Witness == input = C1Input /\ Returned /\ delivered.via = "return"

(***************************************************************************)
(* C2.  Record/replay transparency, as claimed: for every sequence S with   *)
(* balanced archive Begin/End and every name N, BeginArchive(N); S;         *)
(* EndArchive; ReadArchive(N) on a fresh filter forwards exactly what S     *)
(* alone forwards on a fresh filter.                                        *)
(***************************************************************************)
C2_Transparency ==
    \A n \in Names :
        LET S == SubSeq(input, 2, Len(input) - 2) IN
        ( /\ Len(input) >= 3
          /\ Returned
          /\ input[1] = BeginArchive(n)
          /\ input[Len(input) - 1] = EndArchive
          /\ input[Len(input)] = ReadArchiveOp(n)
          /\ Balanced(S)
          /\ RunAll(Fresh, S).callStack = <<>> )
        => nextFilter = RunAll(Fresh, S).nextFilter

(***************************************************************************)
(* C3.  Pass-through identity: a call other than the six scope calls that   *)
(* reaches the filter while it is not recording is forwarded to the next    *)
(* stage exactly once, unchanged and after everything forwarded before, and *)
(* changes neither the scope state nor the registries.                      *)
(***************************************************************************)
C3_PassThrough ==
    ( /\ Called
      /\ delivered.cmd.op \notin ScopeOps
      /\ pre.m_currCache = NULL )
    => /\ nextFilter = Append(pre.nextFilter, delivered.cmd)
       /\ FilterState(World) = FilterState(pre)
       /\ errorHandler = pre.errorHandler
       /\ Len(callStack) = Len(pre.callStack)

C3_Witness ==
    /\ delivered.via = "replay"
    /\ delivered.cmd = Baz(3)
    /\ pre.m_currCache = NULL
    /\ Len(nextFilter) = 2

(***************************************************************************)
(* C4.  Nesting containment: after BeginArchive(A) BeginArchive(B)          *)
(* EndArchive EndArchive on a fresh filter (A # B) the archive registry     *)
(* holds exactly one log, A, whose content is BeginArchive(B), EndArchive;  *)
(* the filter is idle; a following ReadArchive(B) finds no log and is       *)
(* forwarded to the next stage.                                             *)
(***************************************************************************)
C4_Nesting ==
    \A a, b \in Names :
        a # b =>
        /\ input = ScriptNesting(a, b) =>
            /\ m_archives = <<[name |-> a, cmds |-> <<BeginArchive(b), EndArchive>>]>>
            /\ m_objectInstances = <<>>
            /\ Idle(World)
            /\ nextFilter = <<>>
        /\ input = ScriptNesting(a, b) \o <<ReadArchiveOp(b)>> =>
            /\ Returned
            /\ Find(m_archives, b) = 0
            /\ nextFilter = <<ReadArchiveOp(b)>>
            /\ FilterState(World) = FilterState(pre)

C4_Witness ==
    /\ input = ScriptNesting("X", "Y") \o <<ReadArchiveOp("Y")>>
    /\ nextFilter = <<ReadArchiveOp("Y")>>

(***************************************************************************)
(* C5.  Idempotent replay, as claimed: whenever ReadArchive(N) is issued    *)
(* twice in a row from an idle state in which archive log N exists, the     *)
(* second call forwards the same sequence as the first.                     *)
(***************************************************************************)
C5_IdempotentReplay_Original ==
    \A n \in Names :
        ( /\ TwiceInARow(ReadArchiveOp(n))
          /\ Idle(FirstOfTwo)
          /\ Find(FirstOfTwo.m_archives, n) # 0 )
        => OutputOf(Len(input)) = OutputOf(Len(input) - 1)

(***************************************************************************)
(* C5, amended.  Whenever ReadArchive(N) is issued twice in a row while the *)
(* filter is not recording and archive log N exists, and the replay started *)
(* by the first call registered no new log, the second call forwards the    *)
(* same sequence as the first.                                              *)
(***************************************************************************)
C5_IdempotentReplay ==
    \A n \in Names :
        ( /\ TwiceInARow(ReadArchiveOp(n))
          /\ FirstOfTwo.m_currCache = NULL
          /\ Find(FirstOfTwo.m_archives, n) # 0
          /\ NoLogCreated )
        => /\ OutputOf(Len(input)) = OutputOf(Len(input) - 1)
           /\ FilterState(World) = FilterState(FirstOfTwo)

C5_Witness ==
    /\ TwiceInARow(ReadArchiveOp("X"))
    /\ IsPrefix(ScriptChain, input)
    /\ NoLogCreated
    /\ OutputOf(Len(input)) = <<Foo(1), Bar(2)>>
    /\ OutputOf(Len(input) - 1) = <<Foo(1), Bar(2)>>

(***************************************************************************)
(* C6.  Replay is non-destructive: from the moment a ReadArchive or         *)
(* ObjectInstance that resolves to a log is issued while the filter is not  *)
(* recording, through every nested replay and recording it starts and up to *)
(* its return, every log that existed before the call keeps its name and    *)
(* its content.                                                             *)
(***************************************************************************)
C6_NonDestructive ==
    Triggered =>
        /\ Len(m_archives) >= Len(trig[Len(input)].m_archives)
        /\ Len(m_objectInstances) >= Len(trig[Len(input)].m_objectInstances)
        /\ \A i \in 1..Len(trig[Len(input)].m_archives) :
                m_archives[i] = trig[Len(input)].m_archives[i]
        /\ \A i \in 1..Len(trig[Len(input)].m_objectInstances) :
                m_objectInstances[i] = trig[Len(input)].m_objectInstances[i]

\* a replay is recording into a log it created and has appended to it
C6_Witness ==
    /\ Triggered
    /\ Len(callStack) >= 1
    /\ m_currCache.reg = "archives"
    /\ m_currCache.idx > Len(trig[Len(input)].m_archives)
    /\ m_archives[m_currCache.idx].cmds # <<>>

(***************************************************************************)
(* C7.  Repeatable object instances, as claimed: whenever ObjectInstance(N) *)
(* is issued twice in a row from an idle state in which object log N        *)
(* exists, the second call forwards the same sequence as the first.         *)
(***************************************************************************)
C7_RepeatableInstance_Original ==
    \A n \in Names :
        ( /\ TwiceInARow(ObjectInstanceOp(n))
          /\ Idle(FirstOfTwo)
          /\ Find(FirstOfTwo.m_objectInstances, n) # 0 )
        => OutputOf(Len(input)) = OutputOf(Len(input) - 1)

(***************************************************************************)
(* C7, amended.  Whenever ObjectInstance(N) is issued twice in a row while  *)
(* the filter is not recording and object log N exists, and the replay      *)
(* started by the first call registered no new log, the second call         *)
(* forwards the same sequence as the first.                                 *)
(***************************************************************************)
C7_RepeatableInstance ==
    \A n \in Names :
        ( /\ TwiceInARow(ObjectInstanceOp(n))
          /\ FirstOfTwo.m_currCache = NULL
          /\ Find(FirstOfTwo.m_objectInstances, n) # 0
          /\ NoLogCreated )
        => /\ OutputOf(Len(input)) = OutputOf(Len(input) - 1)
           /\ FilterState(World) = FilterState(FirstOfTwo)

C7_Witness ==
    /\ TwiceInARow(ObjectInstanceOp("X"))
    /\ IsPrefix(ScriptObject, input)
    /\ NoLogCreated
    /\ OutputOf(Len(input)) = <<Foo(1), Bar(2)>>
    /\ OutputOf(Len(input) - 1) = <<Foo(1), Bar(2)>>

(***************************************************************************)
(* C8.  Unknown instance name: an ObjectInstance(n) that reaches the filter *)
(* while it is not recording and no object log is called n reports exactly  *)
(* one error, forwards nothing, starts no replay and leaves the scope state *)
(* and both registries unchanged.                                           *)
(***************************************************************************)
C8_UnknownInstance ==
    ( /\ Called
      /\ delivered.cmd.op = "ObjectInstance"
      /\ pre.m_currCache = NULL
      /\ Find(pre.m_objectInstances, delivered.cmd.name) = 0 )
    => /\ errorHandler = Append(pre.errorHandler,
                [code |-> "EqE_BadHandle", name |-> delivered.cmd.name])
       /\ nextFilter = pre.nextFilter
       /\ FilterState(World) = FilterState(pre)
       /\ Len(callStack) = Len(pre.callStack)

\* the unknown name is the name of an archive log
C8_Witness ==
    /\ delivered.via = "source"
    /\ delivered.cmd = ObjectInstanceOp("X")
    /\ pre.m_currCache = NULL
    /\ Find(pre.m_objectInstances, "X") = 0
    /\ Find(pre.m_archives, "X") # 0
    /\ Len(errorHandler) = 1

(***************************************************************************)
(* C9.  An ObjectEnd that reaches the filter while it is not recording      *)
(* reports no error, forwards nothing and leaves the scope state and both   *)
(* registries unchanged.                                                    *)
(***************************************************************************)
C9_UnmatchedObjectEnd ==
    ( /\ Called
      /\ delivered.cmd.op = "ObjectEnd"
      /\ pre.m_currCache = NULL )
    => /\ errorHandler = pre.errorHandler
       /\ nextFilter = pre.nextFilter
       /\ FilterState(World) = FilterState(pre)
       /\ Len(callStack) = Len(pre.callStack)

C9_Witness ==
    /\ delivered.via = "source"
    /\ delivered.cmd.op = "ObjectEnd"
    /\ pre.m_currCache = NULL
    /\ pre.m_archives # <<>>

(***************************************************************************)
(* C10.  An unresolved archive reference is delegated downstream: a         *)
(* ReadArchive(n) that reaches the filter while it is not recording and no  *)
(* archive log is called n is forwarded to the next stage exactly once with *)
(* its name, callback and parameters unchanged, reports no error and        *)
(* changes no filter state.                                                 *)
(***************************************************************************)
C10_UnresolvedArchive ==
    ( /\ Called
      /\ delivered.cmd.op = "ReadArchive"
      /\ pre.m_currCache = NULL
      /\ Find(pre.m_archives, delivered.cmd.name) = 0 )
    => /\ nextFilter = Append(pre.nextFilter, delivered.cmd)
       /\ errorHandler = pre.errorHandler
       /\ FilterState(World) = FilterState(pre)
       /\ Len(callStack) = Len(pre.callStack)

\* the unresolved reference is itself re-issued by a replay
C10_Witness ==
    /\ delivered.via = "replay"
    /\ delivered.cmd = ReadArchiveOp("Y")
    /\ pre.m_currCache = NULL
    /\ Find(pre.m_archives, "Y") = 0
    /\ nextFilter = <<ReadArchiveOp("Y")>>

(***************************************************************************)
(* C11.  A resolved archive reference is replayed synchronously and inline: *)
(* a ReadArchive(n) that reaches the filter while it is not recording and   *)
(* archive log n exists starts the replay of the first log called n into    *)
(* the first filter and is itself not forwarded; a replay returns only      *)
(* after it re-issued every cached call; the source issues its next call    *)
(* only after the replay returned, so that what a call forwarded stays in   *)
(* front of everything forwarded by later calls.                            *)
(***************************************************************************)
C11_SynchronousReplay ==
    /\ ( /\ Called
         /\ delivered.cmd.op = "ReadArchive"
         /\ pre.m_currCache = NULL
         /\ Find(pre.m_archives, delivered.cmd.name) # 0 )
       => /\ Len(callStack) = Len(pre.callStack) + 1
          /\ Top(World) = [reg |-> "archives",
                           idx |-> Find(pre.m_archives, delivered.cmd.name),
                           pc |-> 1, target |-> "firstFilter"]
          /\ nextFilter = pre.nextFilter
          /\ errorHandler = pre.errorHandler
          /\ FilterState(World) = FilterState(pre)
    /\ delivered.via = "return" => ReplayDone(pre)
    /\ delivered.via = "source" => pre.callStack = <<>>
    /\ \A k \in 1..Len(input) : IsPrefix(trig[k].nextFilter, nextFilter)
    /\ ( /\ Triggered
         /\ Returned
         /\ input[Len(input)].op = "ReadArchive" )
       => Len(firstFilter) >=
            Len(trig[Len(input)].firstFilter) + 1
            + Len(trig[Len(input)].m_archives[
                    Find(trig[Len(input)].m_archives, input[Len(input)].name)].cmds)

C11_Witness ==
    /\ input = ScriptScenario \o <<ReadArchiveOp("X"), Foo(1)>>
    /\ nextFilter = <<Foo(1), Baz(3), Foo(1)>>

(***************************************************************************)
(* C12.  The outer archive pair, as claimed: a BeginArchive(n) that reaches *)
(* the filter while it is not recording creates a new archive log n and     *)
(* enters the archive recording at depth 0 without buffering or forwarding  *)
(* the Begin; and when the source then issues content with balanced archive *)
(* Begin/End followed by EndArchive, that EndArchive closes the log, which  *)
(* holds exactly the content.  (Content with ArchiveRecord, which C2 shows  *)
(* is dropped, is left out: the violation is this claim's own.)             *)
(***************************************************************************)
C12_OuterArchivePair ==
    /\ ( /\ Called
         /\ delivered.cmd.op = "ArchiveBegin"
         /\ pre.m_currCache = NULL )
       => /\ m_archives = Append(pre.m_archives, CachedRiStream(delivered.cmd.name))
          /\ m_currCache = [reg |-> "archives", idx |-> Len(m_archives)]
          /\ m_nested = 0
          /\ m_objectInstances = pre.m_objectInstances
          /\ nextFilter = pre.nextFilter
    /\ \A k \in 1..(Len(input) - 1) :
        LET S == SubSeq(input, k + 1, Len(input) - 1) IN
        ( /\ input[k].op = "ArchiveBegin"
          /\ trig[k].m_currCache = NULL
          /\ input[Len(input)] = EndArchive
          /\ Balanced(S)
          /\ \A i \in 1..Len(S) : S[i].op # "ArchiveRecord" )
        => /\ m_currCache = NULL
           /\ m_archives[Len(trig[k].m_archives) + 1].cmds = S

C14_DisjointNamespaces ==
    /\ ( /\ Called
         /\ delivered.cmd.op = "ReadArchive"
         /\ Len(callStack) > Len(pre.callStack) )
       => /\ Top(World).reg = "archives"
          /\ Top(World).idx = Find(pre.m_archives, delivered.cmd.name)
          /\ Top(World).idx # 0
    /\ ( /\ Called
         /\ delivered.cmd.op = "ObjectInstance"
         /\ Len(callStack) > Len(pre.callStack) )
       => /\ Top(World).reg = "objects"
          /\ Top(World).idx = Find(pre.m_objectInstances, delivered.cmd.name)
          /\ Top(World).idx # 0
    /\ Len(m_archives) > Len(pre.m_archives)
       => /\ delivered.cmd.op = "ArchiveBegin"
          /\ m_archives = Append(pre.m_archives, CachedRiStream(delivered.cmd.name))
    /\ Len(m_objectInstances) > Len(pre.m_objectInstances)
       => /\ delivered.cmd.op = "ObjectBegin"
          /\ m_objectInstances =
                Append(pre.m_objectInstances, CachedRiStream(delivered.cmd.name))
    /\ (Returned /\ input = ScriptBothKinds \o <<ReadArchiveOp("X")>>)
       => nextFilter = <<Foo(1)>>
    /\ (Returned /\ input = ScriptBothKinds \o <<ObjectInstanceOp("X")>>)
       => nextFilter = <<Bar(2)>>

C14_Witness ==
    /\ input = ScriptBothKinds \o <<ReadArchiveOp("X"), ObjectInstanceOp("X")>>
    /\ Returned
    /\ nextFilter = <<Foo(1), Bar(2)>>

(***************************************************************************)
(* C15, as claimed: when the source issues ReadArchive(n) while the filter  *)
(* is not recording and the log it resolves to holds a ReadArchive(n) that  *)
(* no scope bracket precedes, the call never returns.                       *)
(***************************************************************************)
C15_SelfReference_Original ==
    ( /\ Triggered
      /\ input[Len(input)].op = "ReadArchive"
      /\ SelfRefAtTopLevel(TriggeredArchive, input[Len(input)].name) )
    => ~Returned

(***************************************************************************)
(* C15, amended: when the source issues ReadArchive(n) while the filter is  *)
(* not recording and the log it resolves to holds a ReadArchive(n) that     *)
(* only plain calls precede (no scope bracket, no reference to a log), the  *)
(* call never returns: every replay of the log reaches the reference with   *)
(* the filter still not recording and starts the replay again.              *)
(***************************************************************************)
C15_SelfReference ==
    ( /\ Triggered
      /\ input[Len(input)].op = "ReadArchive"
      /\ SelfRefAfterPlain(TriggeredArchive, input[Len(input)].name) )
    => ~Returned

C15_Witness ==
    /\ Triggered
    /\ input[Len(input)].op = "ReadArchive"
    /\ SelfRefAfterPlain(TriggeredArchive, input[Len(input)].name)
    /\ Len(callStack) = MaxDepth
    /\ \A i \in 1..Len(callStack) :
          /\ callStack[i].reg = "archives"
          /\ callStack[i].idx = callStack[1].idx
    /\ Len(nextFilter) >= MaxDepth

(***************************************************************************)
(* C16.  An ArchiveEnd that reaches the filter while it is not recording    *)
(* changes nothing: no error is reported, nothing is forwarded, no log and  *)
(* no registry changes, and the filter stays not recording.                 *)
(***************************************************************************)
C16_UnmatchedArchiveEnd ==
    ( /\ Called
      /\ delivered.cmd.op = "ArchiveEnd"
      /\ pre.m_currCache = NULL )
    => /\ FilterState(World) = FilterState(pre)
       /\ nextFilter = pre.nextFilter
       /\ errorHandler = pre.errorHandler
       /\ Len(callStack) = Len(pre.callStack)

C16_Witness ==
    /\ delivered = [cmd |-> EndArchive, via |-> "source"]
    /\ pre.m_currCache = NULL
    /\ pre.m_archives # <<>>
    /\ pre.m_objectInstances # <<>>

(***************************************************************************)
(* C17.  Replay targets the first stage of the chain: every replay, of an   *)
(* archive or of an object instance, re-issues its cached calls on the      *)
(* first filter; each re-issued call is received by the first stage, and    *)
(* the state of the inline-archive filter and the trace of the next stage   *)
(* change only in a step in which the first stage received a call.          *)
(***************************************************************************)
C17_ReplayIntoHead ==
    /\ \A i \in 1..Len(callStack) : callStack[i].target = "firstFilter"
    /\ delivered.via = "replay"
       => /\ delivered.cmd = TopLog(pre).cmds[Top(pre).pc]
          /\ firstFilter = Append(pre.firstFilter, delivered.cmd)
    /\ nextFilter # pre.nextFilter
       => /\ firstFilter = Append(pre.firstFilter, delivered.cmd)
          /\ nextFilter = Append(pre.nextFilter, delivered.cmd)
    /\ FilterState(World) # FilterState(pre)
       => firstFilter = Append(pre.firstFilter, delivered.cmd)

C17_Witness ==
    /\ delivered.via = "replay"
    /\ Len(pre.callStack) = 2
    /\ pre.callStack[1].reg = "objects"
    /\ pre.callStack[2].reg = "archives"
    /\ nextFilter = Append(pre.nextFilter, delivered.cmd)

C19_ArchiveEndInObject ==
    ( /\ Called
      /\ delivered.cmd.op = "ArchiveEnd"
      /\ pre.m_currCache.reg = "objects" )
    => /\ m_objectInstances =
            [pre.m_objectInstances EXCEPT
                ![pre.m_currCache.idx].cmds = Append(@, delivered.cmd)]
       /\ m_currCache = pre.m_currCache
       /\ m_inObject

(***************************************************************************)
(* C20, as claimed: an ObjectEnd received while the current log is an       *)
(* archive log is appended to that log, and the log stays the current one   *)
(* at the same depth.                                                       *)
(***************************************************************************)
C20_ObjectEndInArchive ==
    ( /\ Called
      /\ delivered.cmd.op = "ObjectEnd"
      /\ pre.m_currCache.reg = "archives" )
    => /\ m_archives =
            [pre.m_archives EXCEPT
                ![pre.m_currCache.idx].cmds = Append(@, delivered.cmd)]
       /\ m_currCache = pre.m_currCache
       /\ m_nested = pre.m_nested

(***************************************************************************)
(* C21.  Object-instance recording never nests: an ObjectBegin received     *)
(* while a log is current is appended to that log; no log is created, the   *)
(* current log, the depth and the in-object flag stay as they were, and     *)
(* nothing is forwarded.                                                    *)
(***************************************************************************)
C21_ObjectNeverNests ==
    ( /\ Called
      /\ delivered.cmd.op = "ObjectBegin"
      /\ pre.m_currCache # NULL )
    => /\ Buffered(pre, delivered.cmd)
       /\ m_currCache = pre.m_currCache
       /\ m_nested = pre.m_nested
       /\ m_inObject = pre.m_inObject
       /\ nextFilter = pre.nextFilter
       /\ errorHandler = pre.errorHandler

C21_Witness ==
    /\ Called
    /\ delivered.cmd.op = "ObjectBegin"
    /\ pre.m_currCache.reg = "objects"
    /\ m_objectInstances[m_currCache.idx].cmds = <<delivered.cmd>>

(***************************************************************************)
(* C22.  References are deferred while recording: a ReadArchive or an       *)
(* ObjectInstance received while a log is current is appended to that log   *)
(* and starts no replay, forwards nothing and reports no error, whether or  *)
(* not a log of that name exists.                                           *)
(***************************************************************************)
C22_ReferencesDeferred ==
    ( /\ Called
      /\ delivered.cmd.op \in {"ReadArchive", "ObjectInstance"}
      /\ pre.m_currCache # NULL )
    => /\ Buffered(pre, delivered.cmd)
       /\ Len(callStack) = Len(pre.callStack)
       /\ m_currCache = pre.m_currCache
       /\ m_nested = pre.m_nested
       /\ m_inObject = pre.m_inObject
       /\ nextFilter = pre.nextFilter
       /\ errorHandler = pre.errorHandler

C22_Witness ==
    /\ Called
    /\ delivered.cmd.op = "ObjectInstance"
    /\ pre.m_currCache.reg = "archives"
    /\ Find(pre.m_objectInstances, delivered.cmd.name) # 0
    /\ Len(callStack) = Len(pre.callStack)

(***************************************************************************)
(* C23, as claimed: every call other than the six scope calls,              *)
(* ArchiveRecord included, that is received while a log is current is       *)
(* appended once to the end of that log and is not forwarded.               *)
(***************************************************************************)
C23_OthersBuffered ==
    ( /\ Called
      /\ delivered.cmd.op \notin ScopeOps
      /\ pre.m_currCache # NULL )
    => /\ Buffered(pre, delivered.cmd)
       /\ nextFilter = pre.nextFilter

(***************************************************************************)
(* C24, as claimed: the in-object flag is set exactly when the current log  *)
(* is an object-instance log, so that the filter is in exactly one of Idle  *)
(* (no current log, flag clear), InArchive (current log an archive log,     *)
(* flag clear, depth >= 0) and InObjectInstance (current log an object log, *)
(* flag set).                                                               *)
(***************************************************************************)
C24_OneScopeState ==
    /\ m_inObject <=> m_currCache.reg = "objects"
    /\ m_currCache.reg \in {"none", "archives", "objects"}
    /\ m_nested >= 0

(***************************************************************************)
(* C25.  At most one log is appended to in a step, and it is the current    *)
(* log: a log that changed was the current log before the step and gained   *)
(* exactly the received call, and no other log changed; a log becomes the   *)
(* current one only by being created, so a closed log never becomes current *)
(* (and is never appended to) again; the current log is never a log that is *)
(* being replayed.                                                          *)
(***************************************************************************)
C25_SingleAppendTarget ==
    /\ \A i \in 1..Len(pre.m_archives) :
         m_archives[i] # pre.m_archives[i]
         => /\ Called
            /\ pre.m_currCache = [reg |-> "archives", idx |-> i]
            /\ Buffered(pre, delivered.cmd)
    /\ \A i \in 1..Len(pre.m_objectInstances) :
         m_objectInstances[i] # pre.m_objectInstances[i]
         => /\ Called
            /\ pre.m_currCache = [reg |-> "objects", idx |-> i]
            /\ Buffered(pre, delivered.cmd)
    /\ (m_currCache # NULL /\ m_currCache # pre.m_currCache)
       => /\ pre.m_currCache = NULL
          /\ m_currCache.idx = Len(Registry(pre, m_currCache.reg)) + 1
          /\ m_currCache.idx = Len(Registry(World, m_currCache.reg))
    /\ m_currCache # NULL => ~InReplay(m_currCache.reg, m_currCache.idx)

\* a replay has opened a recording and a replayed call is appended to it
C25_Witness ==
    /\ delivered.via = "replay"
    /\ pre.m_currCache # NULL
    /\ Len(pre.m_archives) + Len(pre.m_objectInstances) >= 2
    /\ Buffered(pre, delivered.cmd)
    /\ delivered.cmd.op \in PlainOps

(***************************************************************************)
(* C26.  Log lifecycle: the registries only grow; a log keeps its place and *)
(* its name and its content is only ever extended; a registry grows only by *)
(* one log at a time, in a step in which ArchiveBegin or ObjectBegin was    *)
(* received while no log was current.                                       *)
(***************************************************************************)
C26_LogLifecycle ==
    /\ Len(m_archives) >= Len(pre.m_archives)
    /\ Len(m_objectInstances) >= Len(pre.m_objectInstances)
    /\ \A i \in 1..Len(pre.m_archives) :
         /\ m_archives[i].name = pre.m_archives[i].name
         /\ IsPrefix(pre.m_archives[i].cmds, m_archives[i].cmds)
    /\ \A i \in 1..Len(pre.m_objectInstances) :
         /\ m_objectInstances[i].name = pre.m_objectInstances[i].name
         /\ IsPrefix(pre.m_objectInstances[i].cmds, m_objectInstances[i].cmds)
    /\ Len(m_archives) + Len(m_objectInstances)
         > Len(pre.m_archives) + Len(pre.m_objectInstances)
       => /\ Called
          /\ pre.m_currCache = NULL
          /\ delivered.cmd.op \in {"ArchiveBegin", "ObjectBegin"}
          /\ Len(m_archives) + Len(m_objectInstances)
               = Len(pre.m_archives) + Len(pre.m_objectInstances) + 1

\* a replay that recorded a name again has returned: both logs are there
C26_Witness ==
    /\ Triggered
    /\ Returned
    /\ delivered.via = "return"
    /\ \E i, j \in 1..Len(m_archives) :
         /\ i < j
         /\ m_archives[i].name = m_archives[j].name
         /\ j > Len(trig[Len(input)].m_archives)

(***************************************************************************)
(* C27.  Replay is flat and equivalent to fresh dispatch: when a reference  *)
(* issued by the source while the filter is not recording resolved to a log *)
(* L and has returned, the forwarded output, the error reports, the scope   *)
(* state and the registries are those obtained by issuing the calls of L    *)
(* one by one, in order, on the first filter from the state in which the    *)
(* reference was issued.                                                    *)
(***************************************************************************)
C27_ReplayIsFreshDispatch ==
    (Triggered /\ Returned)
    => \/ RunAll(trig[Len(input)], TriggeredLog).callStack # <<>>
       \/ /\ nextFilter = RunAll(trig[Len(input)], TriggeredLog).nextFilter
          /\ errorHandler = RunAll(trig[Len(input)], TriggeredLog).errorHandler
          /\ FilterState(World) = FilterState(RunAll(trig[Len(input)], TriggeredLog))

\* the replay of an object log re-interpreted a nested ArchiveBegin/ArchiveEnd
C27_Witness ==
    /\ input = ScriptObjForwardRef \o <<ObjectInstanceOp("X")>>
    /\ Returned
    /\ RunAll(trig[Len(input)], TriggeredLog).callStack = <<>>
    /\ nextFilter = <<ReadArchiveOp("Y")>>
    /\ m_archives = <<[name |-> "Y", cmds |-> <<Foo(1)>>]>>

(***************************************************************************)
(* C28, as claimed: whenever no log is current, the nesting depth is 0 and  *)
(* the in-object flag is clear.                                             *)
(***************************************************************************)
C28_ResidualsReset ==
    m_currCache = NULL => (m_nested = 0 /\ ~m_inObject)

(***************************************************************************)
(* C29, as claimed: when a reference issued by the source while the filter  *)
(* is not recording resolved to a log and has returned, the filter is not   *)
(* recording.                                                               *)
(***************************************************************************)
C29_ReplayReturnsIdle_Original ==
    \A k \in 1..Len(input) :
        (TriggeredAt(k) /\ CompletedAt(k)) => After(k).m_currCache = NULL

(***************************************************************************)
(* C29, amended: when a reference issued by the source while the filter is  *)
(* not recording resolved to a log that holds no ArchiveBegin, no           *)
(* ObjectBegin and no reference to a log, then once it has returned the     *)
(* filter is not recording, and a plain call issued next is forwarded, not  *)
(* buffered.                                                                *)
(***************************************************************************)
C29_ReplayReturnsIdle ==
    \A k \in 1..Len(input) :
        (TriggeredAt(k) /\ CompletedAt(k) /\ NoBeginNoReference(LogAt(k)))
        => /\ After(k).m_currCache = NULL
           /\ ( /\ k < Len(input)
                /\ input[k + 1].op \in PlainOps
                /\ CompletedAt(k + 1) )
              => /\ OutputOf(k + 1) = <<input[k + 1]>>
                 /\ After(k + 1).m_archives = After(k).m_archives
                 /\ After(k + 1).m_objectInstances = After(k).m_objectInstances

C29_Witness ==
    /\ input = ScriptObject \o <<ObjectInstanceOp("X"), Foo(1)>>
    /\ nextFilter = <<Foo(1), Bar(2), Foo(1)>>
    /\ m_currCache = NULL

(***************************************************************************)
(* C30.  Name lookup is first-match in creation order: a reference that     *)
(* starts a replay replays the log of its kind that carries the name and    *)
(* has no log of that name before it in the registry; two references of the *)
(* same kind to the same name issued by the source while the filter is not  *)
(* recording replay the same content, whatever was recorded between them.   *)
(***************************************************************************)
C30_FirstMatch ==
    /\ ( /\ Called
         /\ delivered.cmd.op \in {"ReadArchive", "ObjectInstance"}
         /\ Len(callStack) > Len(pre.callStack) )
       => /\ TopLog(World).name = delivered.cmd.name
          /\ \A j \in 1..(Top(World).idx - 1) :
                Registry(pre, Top(World).reg)[j].name # delivered.cmd.name
          /\ TopLog(World) = Registry(pre, Top(World).reg)[Top(World).idx]
    /\ \A k1, k2 \in 1..Len(input) :
         ( /\ k1 < k2
           /\ input[k1] = input[k2]
           /\ TriggeredAt(k1)
           /\ TriggeredAt(k2) )
         => LogAt(k1) = LogAt(k2)

\* two archives of the same name and different content, and a reference to them
C30_Witness ==
    /\ delivered.cmd.op = "ReadArchive"
    /\ Len(callStack) > Len(pre.callStack)
    /\ \E j \in (Top(World).idx + 1)..Len(m_archives) :
         /\ m_archives[j].name = delivered.cmd.name
         /\ m_archives[j].cmds # TopLog(World).cmds

C32_ConnectFailure ==
    (last.op = "connect" /\ ~aborted /\ ~last.ret)
    => /\ m_socket = INVALID_SOCKET
       /\ m_port = 0
       /\ ~operator_bool(Socket)

(***************************************************************************)
(* C33.  prepare(port) makes its system calls in the order socket, bind,    *)
(* listen and stops at the first that fails; it returns true exactly when   *)
(* all three succeeded; when bind or listen failed the descriptor has been  *)
(* closed and m_socket is INVALID_SOCKET; m_port is the port exactly when   *)
(* bind succeeded and is untouched otherwise.                               *)
(***************************************************************************)
C33_Prepare ==
    last.op = "prepare"
    => /\ last.sys \in {PrepareOpenFailed, PrepareBindFailed,
                        PrepareListenFailed, PrepareDone}
       /\ last.ret <=> last.sys = PrepareDone
       /\ last.ret => (m_socket \in Descriptors /\ os = last.pre.os \cup {m_socket})
       /\ ~last.ret => (m_socket = INVALID_SOCKET /\ os = last.pre.os)
       /\ m_port = IF last.sys \in {PrepareListenFailed, PrepareDone}
                   THEN last.port
                   ELSE last.pre.m_port

\* listen failed after bind succeeded: closed, port recorded
C33_Witness ==
    /\ last.op = "prepare"
    /\ last.sys = PrepareListenFailed
    /\ last.pre.m_port = 0
    /\ m_port = last.port
    /\ m_socket = INVALID_SOCKET
    /\ os = {}

====
